---- MODULE Spec2Model ----
(***************************************************************************)
(* A model of the 2048 clone of src/src/map.ts: the grid engine (lines      *)
(* 1-230) and the React component that drives it (from line 231 on).       *)
(*                                                                         *)
(* Arrays are sequences: the JavaScript index k is the index k + 1 here,   *)
(* and at(array, k) reads the element at the JavaScript index k.           *)
(* A Cell is either null or an object; an object is a record of its two    *)
(* fields, state and value, and of ref, which stands for the object's      *)
(* identity within a grid: ref = 0 is an object held at one position only, *)
(* ref = k > 0 is the k-th object that several positions may hold.  Every  *)
(* object literal and every spread copy of the source builds a new object, *)
(* so the cells the model builds have ref = 0.                             *)
(***************************************************************************)
EXTENDS Integers, Sequences, FiniteSets, TLC

VARIABLES
    arg,    \* the argument a function is applied to (function specifications)
    call,   \* the last call: its function, its inputs and its outcome
    grid,   \* App: the grid of useState
    score,  \* App: the score of useState
    state,  \* App: the GameState of useState
    keysLeft \* the number of key events the run still takes

vars == <<arg, call, grid, score, state, keysLeft>>

(***************************************************************************)
(* Types of map.ts, lines 1-12.                                            *)
(***************************************************************************)
CellState == {"normal", "merged", "new"}

null == [state |-> "null"]

Direction == {"up", "left", "right", "down"}

\* The object literal { state, value }: a new object, held nowhere else.
CellObject(st, v) == [ref |-> 0, state |-> st, value |-> v]

\* cell?.value : undefined (here the empty tuple) for null, else the number.
optValue(cell) == IF cell = null THEN <<>> ELSE <<cell.value>>

\* a === b on two Cells: null is only identical to null, and two objects are
\* identical when they are one object.  The two cells are read from two
\* different positions of a grid.
strictEquals(a, b) ==
    IF a = null \/ b = null
    THEN a = b
    ELSE a.ref # 0 /\ a.ref = b.ref

\* array[index], for an index within the array.
at(array, index) == array[index + 1]

\* Array.from({ length }, (_, index) => f[index]): the array of f[0], ...,
\* f[length - 1].
arrayFrom(length, f) == SubSeq([k \in 1..length |-> f[k - 1]], 1, length)

\* An outcome of a call: a returned value, or an exception thrown to the caller.
Return(v) == [threw |-> FALSE, value |-> v]
Throw(e) == [threw |-> TRUE, error |-> e]

(***************************************************************************)
(* validateMapIsNByM, lines 37-40.                                         *)
(***************************************************************************)
\* Mutant: the rows are compared with the number of rows.
validateMapIsNByN(map) ==
    \A r \in 0..(Len(map) - 1) : Len(at(map, r)) = Len(map)

validateMapIsNByM(map) ==
    LET firstColumnCount == Len(at(map, 0))
    IN  \A r \in 0..(Len(map) - 1) : Len(at(map, r)) = firstColumnCount

(***************************************************************************)
(* rotateMapCounterClockwise, lines 42-75.                                 *)
(***************************************************************************)
\* Mutant: the 270 case transposes without reversing the rows.
rotateMapTranspose270(map, degree) ==
    LET rowLength == Len(map)
        columnLength == Len(at(map, 0))
    IN  CASE degree = 0 -> map
          [] degree = 90 ->
                arrayFrom(columnLength, [columnIndex \in 0..(columnLength - 1) |->
                    arrayFrom(rowLength, [rowIndex \in 0..(rowLength - 1) |->
                        at(at(map, rowIndex), columnLength - columnIndex - 1)])])
          [] degree = 180 ->
                arrayFrom(rowLength, [rowIndex \in 0..(rowLength - 1) |->
                    arrayFrom(columnLength, [columnIndex \in 0..(columnLength - 1) |->
                        at(at(map, rowLength - rowIndex - 1),
                           columnLength - columnIndex - 1)])])
          [] degree = 270 ->
                arrayFrom(columnLength, [columnIndex \in 0..(columnLength - 1) |->
                    arrayFrom(rowLength, [rowIndex \in 0..(rowLength - 1) |->
                        at(at(map, rowIndex), columnIndex)])])

rotateMapCounterClockwise(map, degree) ==
    LET rowLength == Len(map)
        columnLength == Len(at(map, 0))
    IN  CASE degree = 0 -> map
          [] degree = 90 ->
                arrayFrom(columnLength, [columnIndex \in 0..(columnLength - 1) |->
                    arrayFrom(rowLength, [rowIndex \in 0..(rowLength - 1) |->
                        at(at(map, rowIndex), columnLength - columnIndex - 1)])])
          [] degree = 180 ->
                arrayFrom(rowLength, [rowIndex \in 0..(rowLength - 1) |->
                    arrayFrom(columnLength, [columnIndex \in 0..(columnLength - 1) |->
                        at(at(map, rowLength - rowIndex - 1),
                           columnLength - columnIndex - 1)])])
          [] degree = 270 ->
                arrayFrom(columnLength, [columnIndex \in 0..(columnLength - 1) |->
                    arrayFrom(rowLength, [rowIndex \in 0..(rowLength - 1) |->
                        at(at(map, rowLength - rowIndex - 1), columnIndex)])])

(***************************************************************************)
(* moveRowLeft, lines 88-130.                                              *)
(***************************************************************************)
\* Mutant: a merged tile stays the pending tile, so it can merge again.
reduceStepRemerge(acc, cell) ==
    IF cell = null THEN acc
    ELSE IF acc.lastCell = null THEN [acc EXCEPT !.lastCell = cell]
    ELSE IF acc.lastCell.value = cell.value
         THEN LET mergedCell == CellObject("merged", cell.value * 2)
              IN  [result |-> acc.result,
                   lastCell |-> mergedCell,
                   score |-> acc.score + mergedCell.value]
         ELSE LET normalCell == CellObject("normal", acc.lastCell.value)
              IN  [result |-> Append(acc.result, normalCell),
                   lastCell |-> cell,
                   score |-> acc.score]

\* Mutant: a pending tile is emitted with the state it came with.
reduceStepKeepState(acc, cell) ==
    IF cell = null THEN acc
    ELSE IF acc.lastCell = null THEN [acc EXCEPT !.lastCell = cell]
    ELSE IF acc.lastCell.value = cell.value
         THEN LET mergedCell == CellObject("merged", cell.value * 2)
              IN  [result |-> Append(acc.result, mergedCell),
                   lastCell |-> null,
                   score |-> acc.score + mergedCell.value]
         ELSE LET normalCell == CellObject(acc.lastCell.state, acc.lastCell.value)
              IN  [result |-> Append(acc.result, normalCell),
                   lastCell |-> cell,
                   score |-> acc.score]

\* Mutant: a pending tile followed by a tile of another value is not emitted.
reduceStepDropPending(acc, cell) ==
    IF cell = null THEN acc
    ELSE IF acc.lastCell = null THEN [acc EXCEPT !.lastCell = cell]
    ELSE IF acc.lastCell.value = cell.value
         THEN LET mergedCell == CellObject("merged", cell.value * 2)
              IN  [result |-> Append(acc.result, mergedCell),
                   lastCell |-> null,
                   score |-> acc.score + mergedCell.value]
         ELSE [result |-> acc.result,
               lastCell |-> cell,
               score |-> acc.score]

\* Mutant: a merge adds 2 to the value instead of doubling it.
reduceStepPlusTwo(acc, cell) ==
    IF cell = null THEN acc
    ELSE IF acc.lastCell = null THEN [acc EXCEPT !.lastCell = cell]
    ELSE IF acc.lastCell.value = cell.value
         THEN LET mergedCell == CellObject("merged", cell.value + 2)
              IN  [result |-> Append(acc.result, mergedCell),
                   lastCell |-> null,
                   score |-> acc.score + mergedCell.value]
         ELSE LET normalCell == CellObject("normal", acc.lastCell.value)
              IN  [result |-> Append(acc.result, normalCell),
                   lastCell |-> cell,
                   score |-> acc.score]

\* The reducer callback of lines 90-107.
reduceStep(acc, cell) ==
    IF cell = null THEN acc
    ELSE IF acc.lastCell = null THEN [acc EXCEPT !.lastCell = cell]
    ELSE IF acc.lastCell.value = cell.value
         THEN LET mergedCell == CellObject("merged", cell.value * 2)
              IN  [result |-> Append(acc.result, mergedCell),
                   lastCell |-> null,
                   score |-> acc.score + mergedCell.value]
         ELSE LET normalCell == CellObject("normal", acc.lastCell.value)
              IN  [result |-> Append(acc.result, normalCell),
                   lastCell |-> cell,
                   score |-> acc.score]

\* row.reduce(callback, initial), from the element at index i on.
RECURSIVE reduceRow(_, _, _)
reduceRow(row, i, acc) ==
    IF i >= Len(row) THEN acc
    ELSE reduceRow(row, i + 1, reduceStep(acc, at(row, i)))

\* Mutant: isMoved compares the cells, their states included.
moveRowLeftByState(row) ==
    LET reduced == reduceRow(row, 0, [lastCell |-> null, result |-> <<>>, score |-> 0])
        finalResult ==
            IF reduced.lastCell # null
            THEN Append(reduced.result, CellObject("normal", reduced.lastCell.value))
            ELSE reduced.result
        resultRow ==
            arrayFrom(Len(row), [i \in 0..(Len(row) - 1) |->
                IF i < Len(finalResult) THEN at(finalResult, i) ELSE null])
        isMoved ==
            \E i \in 0..(Len(row) - 1) : at(row, i) # at(resultRow, i)
    IN  [result |-> resultRow, isMoved |-> isMoved, score |-> reduced.score]

moveRowLeft(row) ==
    LET reduced == reduceRow(row, 0, [lastCell |-> null, result |-> <<>>, score |-> 0])
        finalResult ==
            IF reduced.lastCell # null
            THEN Append(reduced.result, CellObject("normal", reduced.lastCell.value))
            ELSE reduced.result
        \* finalResult[i] ?? null : null for an index past the end of finalResult
        resultRow ==
            arrayFrom(Len(row), [i \in 0..(Len(row) - 1) |->
                IF i < Len(finalResult) THEN at(finalResult, i) ELSE null])
        isMoved ==
            \E i \in 0..(Len(row) - 1) : optValue(at(row, i)) # optValue(at(resultRow, i))
    IN  [result |-> resultRow, isMoved |-> isMoved, score |-> reduced.score]

(***************************************************************************)
(* moveLeft, lines 77-86.                                                  *)
(***************************************************************************)
\* Mutant: the sum leaves out the first row.
RECURSIVE sumScoresSkipFirst(_, _)
sumScoresSkipFirst(movedRows, n) ==
    IF n <= 1 THEN 0 ELSE sumScoresSkipFirst(movedRows, n - 1) + at(movedRows, n - 1).score

\* movedRows.reduce((acc, movedRow) => acc + movedRow.score, 0), over the
\* first n rows.
RECURSIVE sumScores(_, _)
sumScores(movedRows, n) ==
    IF n = 0 THEN 0 ELSE sumScores(movedRows, n - 1) + at(movedRows, n - 1).score

\* Mutant: isMoved asks every row to have moved.
moveLeftEvery(map) ==
    LET movedRows == arrayFrom(Len(map), [r \in 0..(Len(map) - 1) |-> moveRowLeft(at(map, r))])
        rows == arrayFrom(Len(map), [r \in 0..(Len(map) - 1) |-> at(movedRows, r).result])
    IN  [result |-> rows,
         isMoved |-> \A r \in 0..(Len(map) - 1) : at(movedRows, r).isMoved,
         score |-> sumScores(movedRows, Len(map))]

moveLeft(map) ==
    LET movedRows == arrayFrom(Len(map), [r \in 0..(Len(map) - 1) |-> moveRowLeft(at(map, r))])
        rows == arrayFrom(Len(map), [r \in 0..(Len(map) - 1) |-> at(movedRows, r).result])
    IN  [result |-> rows,
         isMoved |-> \E r \in 0..(Len(map) - 1) : at(movedRows, r).isMoved,
         score |-> sumScores(movedRows, Len(map))]

(***************************************************************************)
(* rotateDegreeMap and revertDegreeMap, lines 132-144.                     *)
(***************************************************************************)
rotateDegreeMap == [up |-> 90, right |-> 180, down |-> 270, left |-> 0]

\* Mutant: the inverse angles are the forward angles.
revertDegreeMapForward == [up |-> 90, right |-> 180, down |-> 270, left |-> 0]

revertDegreeMap == [up |-> 270, right |-> 180, down |-> 90, left |-> 0]

(***************************************************************************)
(* moveMapIn2048Rule, lines 20-35.                                         *)
(***************************************************************************)
moveMapIn2048Rule(map, direction) ==
    IF ~validateMapIsNByM(map) THEN Throw("Error: Map is not N by M")
    ELSE LET rotatedMap == rotateMapCounterClockwise(map, rotateDegreeMap[direction])
             moved == moveLeft(rotatedMap)
         IN  Return([result |-> rotateMapCounterClockwise(moved.result,
                                                         revertDegreeMap[direction]),
                     isMoved |-> moved.isMoved,
                     score |-> moved.score])

(***************************************************************************)
(* getRandomInt, lines 146-148: Math.floor(Math.random() * max), with      *)
(* Math.random() in [0, 1).  The set of the values a call can return.      *)
(***************************************************************************)
getRandomInt(max) == IF max = 0 THEN {0} ELSE 0..(max - 1)

(***************************************************************************)
(* initializeMap, lines 150-171.  randomInt1 is the first draw; draws are  *)
(* the values getRandomInt(16) returns for randomInt2, in order: the while *)
(* loop of lines 162-164 draws again as long as the draw equals randomInt1.*)
(***************************************************************************)
\* Mutant: the second draw is taken as it comes.
drawOnce(randomInt1, draws, k) == draws[k]

RECURSIVE drawUntilDifferent(_, _, _)
drawUntilDifferent(randomInt1, draws, k) ==
    IF draws[k] = randomInt1
    THEN drawUntilDifferent(randomInt1, draws, k + 1)
    ELSE draws[k]

initializeMap(randomInt1, draws) ==
    LET map2048 == arrayFrom(4, [i \in 0..3 |-> arrayFrom(4, [j \in 0..3 |-> null])])
        first == [map2048 EXCEPT ![(randomInt1 \div 4) + 1][(randomInt1 % 4) + 1] =
                                     CellObject("new", 2)]
        randomInt2 == drawUntilDifferent(randomInt1, draws, 1)
    IN  [first EXCEPT ![(randomInt2 \div 4) + 1][(randomInt2 % 4) + 1] =
                          CellObject("new", 2)]

(***************************************************************************)
(* addNewCell, lines 173-194.  randomInt1 is the value drawn at line 174   *)
(* (2 or 4), randomInt2 the index drawn at line 185.                       *)
(***************************************************************************)
\* The loops of lines 177-183, from the k-th of the 16 positions on: the
\* positions [i, j] that hold null, in the order the loops visit them.
RECURSIVE nullPositionsFrom(_, _)
nullPositionsFrom(map2048, k) ==
    IF k = 16 THEN <<>>
    ELSE LET i == k \div 4
             j == k % 4
         IN  (IF at(at(map2048, i), j) = null THEN <<(<<i, j>>)>> ELSE <<>>)
                 \o nullPositionsFrom(map2048, k + 1)

\* Mutant: the index drawn is taken as a position of the grid.
addNewCellAnywhere(map2048, randomInt1, randomInt2) ==
    LET i == randomInt2 \div 4
        j == randomInt2 % 4
    IN  Return([map2048 EXCEPT ![i + 1][j + 1] = CellObject("new", randomInt1)])

\* Mutant: a grid without an empty cell is returned as it is.
addNewCellOrSame(map2048, randomInt1, randomInt2) ==
    LET nullPositions == nullPositionsFrom(map2048, 0)
    IN  IF randomInt2 >= Len(nullPositions)
        THEN Return(map2048)
        ELSE LET i == at(at(nullPositions, randomInt2), 0)
                 j == at(at(nullPositions, randomInt2), 1)
             IN  Return([map2048 EXCEPT ![i + 1][j + 1] = CellObject("new", randomInt1)])

addNewCell(map2048, randomInt1, randomInt2) ==
    LET nullPositions == nullPositionsFrom(map2048, 0)
    IN  IF randomInt2 >= Len(nullPositions)
        THEN \* nullPositions[randomInt2] is undefined: destructuring it throws
             Throw("TypeError")
        ELSE LET i == at(at(nullPositions, randomInt2), 0)
                 j == at(at(nullPositions, randomInt2), 1)
             IN  Return([map2048 EXCEPT ![i + 1][j + 1] = CellObject("new", randomInt1)])

(***************************************************************************)
(* findMaxInMap, lines 196-204.                                            *)
(***************************************************************************)
findMaxInMap(map2048) ==
    LET values == {IF map2048[r][c] # null THEN map2048[r][c].value ELSE 0 :
                       r \in 1..Len(map2048), c \in 1..Len(at(map2048, 0))}
    IN  CHOOSE m \in values : \A v \in values : v <= m

(***************************************************************************)
(* userLoses, lines 206-230.                                               *)
(***************************************************************************)
userLoses(map2048) ==
    IF \E i \in 0..3, j \in 0..3 : at(at(map2048, i), j) = null
    THEN FALSE
    ELSE IF \E i \in 0..3, j \in 0..3 :
                LET currentCell == at(at(map2048, i), j)
                IN  \/ j < 3 /\ strictEquals(currentCell, at(at(map2048, i), j + 1))
                    \/ i < 3 /\ strictEquals(currentCell, at(at(map2048, i + 1), j))
         THEN FALSE
         ELSE TRUE

(***************************************************************************)
(* App, lines 248-397.  A key event runs handleKeyDown to its end before   *)
(* the next event is taken, and the setState calls of one event are        *)
(* applied together: of two calls of one setter the later one stands.      *)
(***************************************************************************)
WIN_THRESHOLD == 128

\* keyToDirection, lines 298-312; the null of line 309 is the string "null".
keyToDirection(key) ==
    CASE key = "ArrowUp" -> "up"
      [] key = "ArrowLeft" -> "left"
      [] key = "ArrowRight" -> "right"
      [] key = "ArrowDown" -> "down"
      [] OTHER -> "null"

\* Mutant: the lose check comes before the win check.
checkLoseThenWin(newGrid, current) ==
    IF userLoses(newGrid) THEN "lose"
    ELSE IF findMaxInMap(newGrid) >= WIN_THRESHOLD THEN "win"
    ELSE current

\* Lines 282-286: the state after a move that moved; current is the state the
\* earlier setState calls of the event leave.
checkWinThenLose(newGrid, current) ==
    IF findMaxInMap(newGrid) >= WIN_THRESHOLD THEN "win"
    ELSE IF userLoses(newGrid) THEN "lose"
    ELSE current

\* Mutant: a move that moved nothing spawns a tile too.
handleKeyDownSpawnAlways(state0, grid0, score0, key) ==
    LET current == IF state0 # "play" THEN "play" ELSE state0
        dir == keyToDirection(key)
        same == [state |-> current, grid |-> grid0, score |-> score0,
                 isMoved |-> FALSE, gained |-> 0, result |-> <<>>, empty |-> 0,
                 spawn |-> "none"]
    IN  IF dir = "null" THEN {same}
        ELSE LET moveResult == moveMapIn2048Rule(grid0, dir)
             IN  IF moveResult.threw THEN {same}
                 ELSE LET nullPositions == nullPositionsFrom(moveResult.value.result, 0)
                      IN  {LET spawned == addNewCell(moveResult.value.result,
                                                     randomInt1, randomInt2)
                           IN  IF spawned.threw
                               THEN [same EXCEPT !.isMoved = moveResult.value.isMoved,
                                                 !.result = moveResult.value.result,
                                                 !.spawn = "threw"]
                               ELSE [state |-> checkWinThenLose(spawned.value, current),
                                     grid |-> spawned.value,
                                     score |-> score0 + moveResult.value.score,
                                     isMoved |-> moveResult.value.isMoved,
                                     gained |-> moveResult.value.score,
                                     result |-> moveResult.value.result,
                                     empty |-> Len(nullPositions),
                                     spawn |-> "returned"] :
                              randomInt1 \in {2, 4},
                              randomInt2 \in getRandomInt(Len(nullPositions))}

\* handleKeyDown, lines 264-290, with the state, grid and score of its
\* closure: the outcomes of the event, one for each pair of draws of
\* addNewCell.  An outcome is the state, grid and score the event leaves, and
\* what the handler did: isMoved, gained and result are the isMoved, score
\* and result of moveResult (false, 0 and the empty tuple when no move was
\* made), empty is the number of empty cells addNewCell found, and spawn
\* tells whether addNewCell was not called, returned or threw.  An exception
\* ends the handler after the setState of line 267.
handleKeyDown(state0, grid0, score0, key) ==
    LET current == IF state0 # "play" THEN "play" ELSE state0
        dir == keyToDirection(key)
        same == [state |-> current, grid |-> grid0, score |-> score0,
                 isMoved |-> FALSE, gained |-> 0, result |-> <<>>, empty |-> 0,
                 spawn |-> "none"]
    IN  IF dir = "null" THEN {same}
        ELSE LET moveResult == moveMapIn2048Rule(grid0, dir)
             IN  IF moveResult.threw THEN {same}
                 ELSE IF ~moveResult.value.isMoved
                      THEN {[same EXCEPT !.result = moveResult.value.result]}
                 ELSE LET nullPositions == nullPositionsFrom(moveResult.value.result, 0)
                      IN  {LET spawned == addNewCell(moveResult.value.result,
                                                     randomInt1, randomInt2)
                           IN  IF spawned.threw
                               THEN [same EXCEPT !.isMoved = TRUE,
                                                 !.result = moveResult.value.result,
                                                 !.spawn = "threw"]
                               ELSE [state |-> checkWinThenLose(spawned.value, current),
                                     grid |-> spawned.value,
                                     score |-> score0 + moveResult.value.score,
                                     isMoved |-> TRUE,
                                     gained |-> moveResult.value.score,
                                     result |-> moveResult.value.result,
                                     empty |-> Len(nullPositions),
                                     spawn |-> "returned"] :
                              randomInt1 \in {2, 4},
                              randomInt2 \in getRandomInt(Len(nullPositions))}

(***************************************************************************)
(* Function specifications: Init draws the argument from a bounded set and *)
(* each action applies one function of map.ts to it, recording the call.   *)
(***************************************************************************)
NoCall == [fn |-> "none"]

\* The App is not running in a function specification.
AppIdle == grid = <<>> /\ score = 0 /\ state = "start" /\ keysLeft = 0

\* Tile values and tiles the arguments are built from.
Values == {2, 4}

Tiles == {[ref |-> 0, state |-> st, value |-> v] : st \in CellState, v \in Values}

\* The values of a row, position by position (the empty tuple for no tile).
RowValues(row) == [i \in 1..Len(row) |-> optValue(row[i])]

\* The values of a grid, position by position.
MapValues(map) == [r \in 1..Len(map) |-> RowValues(map[r])]

(***************************************************************************)
(* SpecRow: moveRowLeft on every row of at most MaxLen cells.              *)
(***************************************************************************)
MaxLen == 4

RowInputs == UNION {[1..n -> Tiles \cup {null}] : n \in 0..MaxLen}

InitRow == arg \in RowInputs /\ call = NoCall /\ AppIdle

CallMoveRowLeft ==
    /\ call = NoCall
    /\ call' = [fn |-> "moveRowLeft", row |-> arg, out |-> moveRowLeft(arg)]
    /\ UNCHANGED <<arg, grid, score, state, keysLeft>>

NextRow == CallMoveRowLeft

SpecRow == InitRow /\ [][NextRow]_vars

(***************************************************************************)
(* The reference reduction of a line, on values: drop the empty cells,     *)
(* pair equal neighbours greedily from the front (a merged tile is not     *)
(* paired again), pad with empty cells to the original length.             *)
(***************************************************************************)
TileValues(row) ==
    LET present == SelectSeq(row, LAMBDA c : c # null)
    IN  [i \in 1..Len(present) |-> present[i].value]

RECURSIVE GreedyPairs(_)
GreedyPairs(vals) ==
    IF Len(vals) <= 1 THEN vals
    ELSE IF vals[1] = vals[2]
         THEN <<vals[1] + vals[2]>> \o GreedyPairs(SubSeq(vals, 3, Len(vals)))
         ELSE <<vals[1]>> \o GreedyPairs(SubSeq(vals, 2, Len(vals)))

ReferenceReduction(row) ==
    LET packed == GreedyPairs(TileValues(row))
    IN  [i \in 1..Len(row) |-> IF i <= Len(packed) THEN <<packed[i]>> ELSE <<>>]

\* A row of values (0 for an empty cell) as RowValues gives it.
AsValues(nums) == [i \in 1..Len(nums) |-> IF nums[i] = 0 THEN <<>> ELSE <<nums[i]>>]

\* C2: moveRowLeft returns, value for value, the reference reduction of its
\* row: empty cells dropped, equal neighbours paired greedily from the left,
\* no merged tile merged again, right-padded with empty cells to the row's
\* length; so [2,2,2,_], [2,_,2,2], [2,2,4,_] and [2,2,2,2] give [4,2,_,_],
\* [4,2,_,_], [4,4,_,_] and [4,4,_,_].
C2_MoveRowLeftIsReference ==
    call.fn = "moveRowLeft" =>
        /\ Len(call.out.result) = Len(call.row)
        /\ RowValues(call.out.result) = ReferenceReduction(call.row)
        /\ RowValues(call.row) = AsValues(<<2, 2, 2, 0>>)
                => RowValues(call.out.result) = AsValues(<<4, 2, 0, 0>>)
        /\ RowValues(call.row) = AsValues(<<2, 0, 2, 2>>)
                => RowValues(call.out.result) = AsValues(<<4, 2, 0, 0>>)
        /\ RowValues(call.row) = AsValues(<<2, 2, 4, 0>>)
                => RowValues(call.out.result) = AsValues(<<4, 4, 0, 0>>)
        /\ RowValues(call.row) = AsValues(<<2, 2, 2, 2>>)
                => RowValues(call.out.result) = AsValues(<<4, 4, 0, 0>>)

\* A run of three equal tiles has been reduced: the first pair merged, the
\* third tile left alone.
C2_Witness ==
    /\ call.fn = "moveRowLeft"
    /\ RowValues(call.row) = AsValues(<<2, 2, 2, 0>>)
    /\ RowValues(call.out.result) = AsValues(<<4, 2, 0, 0>>)

(***************************************************************************)
(* SpecGrid: moveMapIn2048Rule, in the four directions, on every           *)
(* rectangular grid of at most MaxDim x MaxDim cells holding at most       *)
(* MaxTiles tiles.                                                         *)
(***************************************************************************)
MaxDim == 3

MaxTiles == 3

Positions(R, C) == (1..R) \X (1..C)

\* The number of the position p among the positions on, in reading order.
Rank(on, p) ==
    Cardinality({q \in on : q[1] < p[1] \/ (q[1] = p[1] /\ q[2] <= p[2])})

\* The states of the tiles of an argument: in reading order new, merged,
\* normal, new, ...
StateCycle == <<"new", "merged", "normal">>

\* The grid whose row r has lengths[r] cells, with the tiles val at the
\* positions on.
ShapedGrid(lengths, on, val) ==
    [r \in 1..Len(lengths) |->
        [c \in 1..lengths[r] |->
            IF <<r, c>> \in on
            THEN [ref |-> 0,
                  state |-> StateCycle[((Rank(on, <<r, c>>) - 1) % 3) + 1],
                  value |-> val[<<r, c>>]]
            ELSE null]]

\* The R x C grid with the tiles val at the positions on.
GridOf(R, C, on, val) == ShapedGrid([r \in 1..R |-> C], on, val)

\* arg is a rectangular grid of at most maxDim x maxDim cells holding at most
\* maxTiles tiles.
DrawGrid(maxDim, maxTiles) ==
    \E R \in 1..maxDim, C \in 1..maxDim :
        \E on \in {P \in SUBSET Positions(R, C) : Cardinality(P) <= maxTiles} :
            \E val \in [on -> Values] :
                arg = GridOf(R, C, on, val)

InitGrid == DrawGrid(MaxDim, MaxTiles) /\ call = NoCall /\ AppIdle

CallMove(direction) ==
    /\ call = NoCall
    /\ call' = [fn |-> "moveMapIn2048Rule", map |-> arg, direction |-> direction,
                out |-> moveMapIn2048Rule(arg, direction)]
    /\ UNCHANGED <<arg, grid, score, state, keysLeft>>

NextGrid == \E direction \in Direction : CallMove(direction)

SpecGrid == InitGrid /\ [][NextGrid]_vars

\* A move has returned (not thrown).
Moved == call.fn = "moveMapIn2048Rule" /\ ~call.out.threw

Rows(map) == Len(map)

Cols(map) == Len(map[1])

Reverse(seq) == [i \in 1..Len(seq) |-> seq[Len(seq) - i + 1]]

\* The lines of a grid parallel to a direction, each read starting from the
\* edge the direction names.
NumLines(map, direction) ==
    IF direction \in {"left", "right"} THEN Rows(map) ELSE Cols(map)

Line(map, direction, k) ==
    CASE direction = "left" -> map[k]
      [] direction = "right" -> Reverse(map[k])
      [] direction = "up" -> [r \in 1..Rows(map) |-> map[r][k]]
      [] direction = "down" -> [r \in 1..Rows(map) |-> map[Rows(map) - r + 1][k]]

\* C3: the grid moveMapIn2048Rule returns has the dimensions of its argument,
\* and each of its lines parallel to the direction, read from the edge the
\* direction names, is the reference reduction of the same line of the
\* argument: tiles pack and merge toward that edge, nearest the edge first.
C3_MoveIsReferencePerLine ==
    Moved =>
        LET g == call.map
            res == call.out.value.result
            d == call.direction
        IN  /\ Rows(res) = Rows(g)
            /\ \A r \in 1..Rows(res) : Len(res[r]) = Cols(g)
            /\ \A k \in 1..NumLines(g, d) :
                    RowValues(Line(res, d, k)) = ReferenceReduction(Line(g, d, k))

\* A non-square grid whose first column holds 2, 2, 2 has been moved down:
\* the pair nearest the bottom edge merged.
C3_Witness ==
    /\ Moved
    /\ call.direction = "down"
    /\ Rows(call.map) = 3 /\ Cols(call.map) = 2
    /\ RowValues(Line(call.map, "up", 1)) = AsValues(<<2, 2, 2>>)
    /\ RowValues(Line(call.out.value.result, "up", 1)) = AsValues(<<0, 2, 4>>)

\* C4: isMoved is true exactly when the returned grid differs from the
\* argument in the value or emptiness of some position; the states of the
\* cells do not count.
C4_IsMovedIffValuesDiffer ==
    Moved =>
        (call.out.value.isMoved <=> MapValues(call.out.value.result) # MapValues(call.map))

\* A move that changed no value but reset a tile's state from new to normal
\* has reported isMoved = false.
C4_Witness ==
    /\ Moved
    /\ ~call.out.value.isMoved
    /\ call.out.value.result # call.map
    /\ \E r \in 1..Rows(call.map), c \in 1..Cols(call.map) :
            /\ call.map[r][c] # null
            /\ call.map[r][c].state = "new"
            /\ call.out.value.result[r][c].state = "normal"

\* The merges of the reference reduction of a line: the values of the tiles
\* the greedy pairing produces, in order.
RECURSIVE MergedValues(_)
MergedValues(vals) ==
    IF Len(vals) <= 1 THEN <<>>
    ELSE IF vals[1] = vals[2]
         THEN <<vals[1] + vals[2]>> \o MergedValues(SubSeq(vals, 3, Len(vals)))
         ELSE MergedValues(SubSeq(vals, 2, Len(vals)))

RECURSIVE SumSeq(_)
SumSeq(nums) == IF nums = <<>> THEN 0 ELSE nums[1] + SumSeq(Tail(nums))

\* All merges of a move, line after line.
RECURSIVE MergesUpTo(_, _, _)
MergesUpTo(map, direction, k) ==
    IF k = 0 THEN <<>>
    ELSE MergesUpTo(map, direction, k - 1)
             \o MergedValues(TileValues(Line(map, direction, k)))

MoveMerges(map, direction) == MergesUpTo(map, direction, NumLines(map, direction))

MaxRotTiles == 2

InitRotate == DrawGrid(MaxDim, MaxRotTiles) /\ call = NoCall /\ AppIdle

RotationChains ==
    {<<rotateDegreeMap[d], revertDegreeMap[d]>> : d \in Direction}
        \cup {<<90, 90, 90, 90>>}

\* rotateMapCounterClockwise applied to map with each angle of the chain in turn.
RECURSIVE rotateChain(_, _)
rotateChain(map, degrees) ==
    IF degrees = <<>> THEN map
    ELSE rotateChain(rotateMapCounterClockwise(map, degrees[1]), Tail(degrees))

CallRotations(degrees) ==
    /\ call = NoCall
    /\ call' = [fn |-> "rotateMapCounterClockwise", map |-> arg, degrees |-> degrees,
                out |-> rotateChain(arg, degrees)]
    /\ UNCHANGED <<arg, grid, score, state, keysLeft>>

NextRotate == \E degrees \in RotationChains : CallRotations(degrees)

SpecRotate == InitRotate /\ [][NextRotate]_vars

\* C7: on a rectangular grid, square or not, rotating by 90 and then by 270,
\* by 180 twice, and by 90 four times each return the grid; so the forward and
\* inverse angles of each direction (0/0, 90/270, 180/180, 270/90) compose to
\* the identity.
C7_RotationsComposeToIdentity ==
    call.fn = "rotateMapCounterClockwise" =>
        /\ call.degrees \in {<<0, 0>>, <<90, 270>>, <<180, 180>>, <<270, 90>>,
                              <<90, 90, 90, 90>>}
        /\ call.out = call.map

\* A non-square grid holding two tiles has been rotated by 90 and then by
\* 270, the quarter turn having transposed its dimensions.
C7_Witness ==
    /\ call.fn = "rotateMapCounterClockwise"
    /\ call.degrees = <<90, 270>>
    /\ Rows(call.map) = 2 /\ Cols(call.map) = 3
    /\ Rows(rotateMapCounterClockwise(call.map, 90)) = 3
    /\ \E r1, r2 \in 1..2, c1, c2 \in 1..3 :
            /\ <<r1, c1>> # <<r2, c2>>
            /\ call.map[r1][c1] # null
            /\ call.map[r2][c2] # null
    /\ call.out = call.map

(***************************************************************************)
(* SpecShape: moveMapIn2048Rule on every grid of at most MaxDim rows of 1  *)
(* to MaxDim cells each, the rows of equal lengths or not, holding at most *)
(* MaxShapeTiles tiles.                                                    *)
(***************************************************************************)
MaxShapeTiles == 1

Shapes(maxDim) == UNION {[1..R -> 1..maxDim] : R \in 1..maxDim}

ShapePositions(lengths) ==
    {p \in (1..Len(lengths)) \X (1..MaxDim) : p[2] <= lengths[p[1]]}

InitShape ==
    /\ \E lengths \in Shapes(MaxDim) :
           \E on \in {P \in SUBSET ShapePositions(lengths) :
                          Cardinality(P) <= MaxShapeTiles} :
               \E val \in [on -> Values] :
                   arg = ShapedGrid(lengths, on, val)
    /\ call = NoCall
    /\ AppIdle

SpecShape == InitShape /\ [][NextGrid]_vars

IsRectangular(map) == \A r \in 1..Len(map) : Len(map[r]) = Len(map[1])

\* C8: moveMapIn2048Rule on a grid some row of which differs in length from
\* the first row throws, in every direction, and returns no MoveResult; on a
\* rectangular grid it throws nothing.
C8_ThrowsIffNotRectangular ==
    call.fn = "moveMapIn2048Rule" =>
        IF IsRectangular(call.map)
        THEN /\ ~call.out.threw
             /\ DOMAIN call.out.value = {"result", "isMoved", "score"}
        ELSE call.out = [threw |-> TRUE, error |-> "Error: Map is not N by M"]

\* A move down of a grid whose last row is shorter than its first has thrown.
C8_Witness ==
    /\ call.fn = "moveMapIn2048Rule"
    /\ call.direction = "down"
    /\ Len(call.map) = 3
    /\ Len(call.map[1]) = 3 /\ Len(call.map[2]) = 3 /\ Len(call.map[3]) = 2
    /\ call.out.threw

(***************************************************************************)
(* SpecBoard: userLoses and addNewCell on the 4 x 4 grids that differ in   *)
(* at most MaxEdits cells from the empty grid or from a checkerboard of 2s *)
(* and 4s (a full grid without two equal neighbours).                      *)
(***************************************************************************)
MaxEdits == 2

Board == Positions(4, 4)

\* Boards as functions from the positions to values, 0 for an empty cell.
BaseBoards ==
    {[p \in Board |-> 0],
     [p \in Board |-> IF (p[1] + p[2]) % 2 = 0 THEN 2 ELSE 4],
     [p \in Board |-> IF (p[1] + p[2]) % 2 = 0 THEN 4 ELSE 2]}

BoardOf(v) == GridOf(4, 4, {p \in Board : v[p] # 0}, v)

InitBoard ==
    /\ \E base \in BaseBoards :
           \E edited \in {E \in SUBSET Board : Cardinality(E) <= MaxEdits} :
               \E new \in [edited -> Values \cup {0}] :
                   arg = BoardOf([p \in Board |-> IF p \in edited THEN new[p] ELSE base[p]])
    /\ call = NoCall
    /\ AppIdle

CallUserLoses ==
    /\ call = NoCall
    /\ call' = [fn |-> "userLoses", map |-> arg, out |-> userLoses(arg)]
    /\ UNCHANGED <<arg, grid, score, state, keysLeft>>

\* Line 174 draws 2 or 4, line 185 an index into nullPositions.
CallAddNewCell ==
    /\ call = NoCall
    /\ \E randomInt1 \in {2, 4},
          randomInt2 \in getRandomInt(Len(nullPositionsFrom(arg, 0))) :
            call' = [fn |-> "addNewCell", map |-> arg,
                     random |-> <<randomInt1, randomInt2>>,
                     out |-> addNewCell(arg, randomInt1, randomInt2)]
    /\ UNCHANGED <<arg, grid, score, state, keysLeft>>

NextBoard == CallUserLoses \/ CallAddNewCell

SpecBoard == InitBoard /\ [][NextBoard]_vars

HasEmptyCell(map) == \E p \in Board : map[p[1]][p[2]] = null

\* Two horizontally or vertically adjacent cells hold tiles of one value.
HasEqualNeighbours(map) ==
    \E p \in Board, q \in Board :
        /\ (q[1] = p[1] /\ q[2] = p[2] + 1) \/ (q[1] = p[1] + 1 /\ q[2] = p[2])
        /\ map[p[1]][p[2]] # null
        /\ map[q[1]][q[2]] # null
        /\ map[p[1]][p[2]].value = map[q[1]][q[2]].value

\* C1: userLoses returns true exactly for the grids with no empty cell and no
\* two adjacent cells of equal value; for a full grid with two equal
\* neighbours it returns false.
C1_UserLosesIffNoMove ==
    call.fn = "userLoses" =>
        (call.out <=> ~HasEmptyCell(call.map) /\ ~HasEqualNeighbours(call.map))

C10_AddNewCellThrowsOnFullGrid ==
    (call.fn = "addNewCell" /\ ~HasEmptyCell(call.map)) =>
        /\ call.out.threw
        /\ DOMAIN call.out = {"threw", "error"}

\* addNewCell has been called on a full grid.
C10_Witness ==
    /\ call.fn = "addNewCell"
    /\ ~HasEmptyCell(call.map)
    /\ call.out.threw

(***************************************************************************)
(* SpecInit: initializeMap under every first draw and every run of second  *)
(* draws that repeats the first at most MaxRepeats times.                  *)
(***************************************************************************)
MaxRepeats == 2

InitFresh == arg = <<>> /\ call = NoCall /\ AppIdle

CallInitializeMap ==
    /\ call = NoCall
    /\ \E randomInt1 \in getRandomInt(16), repeats \in 0..MaxRepeats :
           \E last \in getRandomInt(16) \ {randomInt1} :
               LET draws == [k \in 1..(repeats + 1) |->
                                IF k <= repeats THEN randomInt1 ELSE last]
               IN  call' = [fn |-> "initializeMap",
                            random |-> <<randomInt1, draws>>,
                            out |-> initializeMap(randomInt1, draws)]
    /\ UNCHANGED <<arg, grid, score, state, keysLeft>>

NextInit == CallInitializeMap

SpecInit == InitFresh /\ [][NextInit]_vars

\* C9: the grid initializeMap returns is 4 x 4 and holds exactly two tiles,
\* at two different positions, each of value 2 and state new, whatever the
\* draws, a second draw equal to the first included.
C9_InitializeMapTwoTiles ==
    call.fn = "initializeMap" =>
        /\ Rows(call.out) = 4
        /\ \A r \in 1..4 : Len(call.out[r]) = 4
        /\ Cardinality({p \in Board : call.out[p[1]][p[2]] # null}) = 2
        /\ \A p \in Board :
               call.out[p[1]][p[2]] \in {null, [ref |-> 0, state |-> "new", value |-> 2]}

\* initializeMap has returned after a second draw that repeated the first.
C9_Witness ==
    /\ call.fn = "initializeMap"
    /\ Len(call.random[2]) >= 2
    /\ call.random[2][1] = call.random[1]
    /\ Cardinality({p \in Board : call.out[p[1]][p[2]] # null}) = 2

(***************************************************************************)
(* Spec: the App.  It mounts on a new game (no game in localStorage: state *)
(* start, the grid of initializeMap, score 0) or on a stored game (state   *)
(* continue), lines 251-262; then the effect of lines 365-369, key events  *)
(* and clicks on "Try again" follow.  A stored game is a grid and a score  *)
(* that the effect of lines 378-396 wrote while an earlier game was in     *)
(* state play, every tile stored with state new.                           *)
(***************************************************************************)
\* The key events a game that mounted on a stored game takes.
MaxKeys == 3

\* The key events a game that starts from initializeMap takes.
MaxFreshKeys == 1

\* The four arrow keys and one other key.
Keys == {"ArrowUp", "ArrowLeft", "ArrowRight", "ArrowDown", "Enter"}

\* The grid JSON.parse returns for stored rows of values (0 for null).
ParsedGrid(rows) ==
    [r \in 1..4 |-> [c \in 1..4 |->
        IF rows[r][c] = 0 THEN null ELSE CellObject("new", rows[r][c])]]

\* Two stored games, both of them games that play from initializeMap
\* reaches: one with a single empty cell, 20 moves into a game, and one with
\* a full grid holding two 64s side by side, 71 moves into a game.
SavedGames ==
    {[grid |-> ParsedGrid(<< <<8, 4, 2, 8>>,
                             <<4, 2, 16, 2>>,
                             <<2, 4, 2, 4>>,
                             <<4, 2, 0, 4>> >>),
      score |-> 56],
     [grid |-> ParsedGrid(<< <<8, 2, 8, 2>>,
                             <<2, 16, 2, 4>>,
                             <<2, 4, 64, 64>>,
                             <<2, 8, 2, 4>> >>),
      score |-> 652]}

\* The draws of initializeMap: the first, and the second ones in order, the
\* last of which differs from the first.
InitializeDraws ==
    {<<randomInt1, [k \in 1..(repeats + 1) |-> IF k <= repeats THEN randomInt1 ELSE last]>> :
        randomInt1 \in getRandomInt(16),
        repeats \in 0..MaxRepeats,
        last \in getRandomInt(16)} \ 
    {<<randomInt1, [k \in 1..(repeats + 1) |-> randomInt1]>> :
        randomInt1 \in getRandomInt(16), repeats \in 0..MaxRepeats}

\* The grids initializeMap returns under these draws.
NewGrids == {initializeMap(draws[1], draws[2]) : draws \in InitializeDraws}

Mount == [fn |-> "App"]

InitNewGame ==
    /\ state = "start"
    /\ grid \in NewGrids
    /\ score = 0
    /\ keysLeft = MaxFreshKeys

InitStoredGame ==
    /\ state = "continue"
    /\ \E savedState \in SavedGames :
           /\ grid = savedState.grid
           /\ score = savedState.score
    /\ keysLeft = MaxKeys

Init == arg = <<>> /\ call = Mount /\ (InitNewGame \/ InitStoredGame)

\* The App is mounted.
Running == grid # <<>>

\* The effect of lines 365-369.
StartEffect ==
    /\ Running
    /\ state \in {"start", "continue"}
    /\ state' = "play"
    /\ UNCHANGED <<arg, call, grid, score, keysLeft>>

\* A keydown event.
KeyDown(key) ==
    /\ Running
    /\ keysLeft > 0
    /\ \E out \in handleKeyDown(state, grid, score, key) :
           /\ state' = out.state
           /\ grid' = out.grid
           /\ score' = out.score
           /\ call' = [fn |-> "handleKeyDown", key |-> key, isMoved |-> out.isMoved,
                       gained |-> out.gained, result |-> out.result,
                       empty |-> out.empty, spawn |-> out.spawn]
    /\ keysLeft' = keysLeft - 1
    /\ UNCHANGED arg

\* resetGame, lines 292-296, the click handler of the "Try again" link that
\* displayMessage (lines 336-363) shows in the states win and lose.  The new
\* game takes at most MaxFreshKeys of the key events that are left.
resetGame ==
    /\ Running
    /\ state \in {"win", "lose"}
    /\ state' = "start"
    /\ score' = 0
    /\ grid' \in NewGrids
    /\ call' = [fn |-> "resetGame"]
    /\ keysLeft' = IF keysLeft > MaxFreshKeys THEN MaxFreshKeys ELSE keysLeft
    /\ UNCHANGED arg

Next ==
    \/ StartEffect
    \/ \E key \in Keys : KeyDown(key)
    \/ resetGame

Spec == Init /\ [][Next]_vars

(***************************************************************************)
(* SpecEngine: the engine under both of its uses, a call of                *)
(* moveMapIn2048Rule on a grid of SpecGrid and the App of Spec.            *)
(***************************************************************************)
InitEngine == InitGrid \/ Init

NextEngine == NextGrid \/ Next

SpecEngine == InitEngine /\ [][NextEngine]_vars

\* A key event has been handled.
Handled == call.fn = "handleKeyDown"

\* C11: a move that reports isMoved = true returns a grid with an empty cell,
\* on every rectangular grid and in every direction; so in the game, where
\* addNewCell is called only after such a move, addNewCell always finds an
\* empty cell and never throws.
C11_MovedLeavesAnEmptyCell ==
    /\ (Moved /\ call.out.value.isMoved) =>
            \E r \in 1..Rows(call.map), c \in 1..Cols(call.map) :
                call.out.value.result[r][c] = null
    /\ Handled =>
            /\ call.spawn # "threw"
            /\ call.isMoved <=> call.spawn = "returned"
            /\ call.isMoved => call.empty >= 1

\* A key event has moved a full grid by a merge, and addNewCell has filled
\* the one cell the merge emptied.
C11_Witness ==
    /\ Handled
    /\ call.isMoved
    /\ call.gained > 0
    /\ call.empty = 1
    /\ call.spawn = "returned"
    /\ ~HasEmptyCell(grid)

\* Some move of the grid moves a tile.
CanMove(map) ==
    \E direction \in Direction : moveMapIn2048Rule(map, direction).value.isMoved

\* C12: in every game, the state is lose only when no further move is
\* possible: moveMapIn2048Rule reports isMoved = false for the grid in all four
\* directions.
C12_LoseOnlyWhenNoMove == state = "lose" => ~CanMove(grid)

\* The tiles of a 4 x 4 grid.
TilesOf(map) == {map[p[1]][p[2]] : p \in {q \in Board : map[q[1]][q[2]] # null}}

IsPowerOfTwo(n) == \E k \in 1..30 : n = 2 ^ k

\* C13: in every grid a game reaches by moves and spawns, every tile holds a
\* power of 2 that is at least 2.
C13_ValuesArePowersOfTwo ==
    Running => \A cell \in TilesOf(grid) : IsPowerOfTwo(cell.value)

\* A key event has merged two tiles into a tile of 8 or more and has spawned
\* a 4.
C13_Witness ==
    /\ Handled
    /\ call.gained >= 8
    /\ \E cell \in TilesOf(grid) : cell.state = "merged" /\ cell.value >= 8
    /\ \E cell \in TilesOf(grid) : cell.state = "new" /\ cell.value = 4

\* C14: after a key event whose move reported isMoved = true, the state is
\* win exactly when the grid after the spawn holds a tile of WIN_THRESHOLD
\* (128) or more; the win check comes first, so a grid with no empty cell, no
\* equal neighbours and a 128 gives win, and the state is lose only when the
\* largest tile is below 128.
C14_WinIffThresholdReached ==
    (Handled /\ call.isMoved) =>
        /\ state = "win" <=> findMaxInMap(grid) >= WIN_THRESHOLD
        /\ state = "lose" => findMaxInMap(grid) < WIN_THRESHOLD
        /\ (~HasEmptyCell(grid) /\ ~HasEqualNeighbours(grid)
                /\ \E cell \in TilesOf(grid) : cell.value >= 128)
            => state = "win"

\* A key event has merged two 64s and the spawn has filled the grid, leaving
\* no two equal neighbours: the state is win.
C14_Witness ==
    /\ Handled
    /\ call.isMoved
    /\ state = "win"
    /\ \E cell \in TilesOf(grid) : cell.state = "merged" /\ cell.value = 128
    /\ ~HasEmptyCell(grid)
    /\ ~HasEqualNeighbours(grid)

\* The step is a key event.
KeyStep == call'.fn = "handleKeyDown" /\ keysLeft' # keysLeft

\* map is spawned from: it differs from it at exactly one position, which is
\* empty in from and holds a new tile of value 2 or 4 in map.
IsSpawnOf(map, from) ==
    \E p \in Board :
        /\ from[p[1]][p[2]] = null
        /\ map[p[1]][p[2]] \in {CellObject("new", v) : v \in {2, 4}}
        /\ \A q \in Board \ {p} : map[q[1]][q[2]] = from[q[1]][q[2]]

\* C15: a key event of a key that is no arrow key, or of an arrow key whose
\* move reports isMoved = false, leaves grid and score as they are and spawns
\* no tile; a key event whose move reports isMoved = true makes the grid the
\* result of the move with one spawned tile and adds the score of the move to
\* the score; and nothing but such a key event and resetGame changes grid or
\* score.
C15_OnlyMovesAndResetChange ==
    [][/\ KeyStep =>
            /\ call'.key \notin {"ArrowUp", "ArrowLeft", "ArrowRight", "ArrowDown"}
                    => ~call'.isMoved /\ call'.result = <<>>
            /\ IF call'.isMoved
               THEN /\ call'.spawn = "returned"
                    /\ IsSpawnOf(grid', call'.result)
                    /\ score' = score + call'.gained
               ELSE /\ call'.spawn = "none"
                    /\ grid' = grid
                    /\ score' = score
       /\ (grid' # grid \/ score' # score) =>
            \/ call'.fn = "resetGame"
            \/ KeyStep /\ call'.isMoved
      ]_vars

\* The left arrow has been pressed in a new game whose two tiles were in the
\* left column already: nothing moved, and the grid is still the grid of
\* initializeMap.
C15_Witness ==
    /\ Handled
    /\ call.key = "ArrowLeft"
    /\ ~call.isMoved
    /\ call.spawn = "none"
    /\ grid \in NewGrids
    /\ score = 0

\* C16: once the state is win or lose, the state, the grid and the score
\* stay as they are under every key event, until resetGame is called.
C16_GameOverIsFinal ==
    [][(state = "win" \/ state = "lose") =>
            \/ call'.fn = "resetGame"
            \/ state' = state /\ grid' = grid /\ score' = score
      ]_vars

(***************************************************************************)
(* Conservation under moveMapIn2048Rule, on the grids of SpecGrid.         *)
(***************************************************************************)
\* The tiles of a rectangular grid, in reading order.
RECURSIVE TilesUpTo(_, _)
TilesUpTo(map, r) ==
    IF r = 0 THEN <<>>
    ELSE TilesUpTo(map, r - 1) \o SelectSeq(map[r], LAMBDA cell : cell # null)

TileSeq(map) == TilesUpTo(map, Rows(map))

\* The number of the tiles of value v among tiles whose state is
\* (merged = TRUE) or is not (merged = FALSE) the state merged.
CountTiles(tiles, v, merged) ==
    Len(SelectSeq(tiles, LAMBDA cell : cell.value = v /\ (cell.state = "merged") = merged))

\* C17: moveMapIn2048Rule keeps the sum of the values of the tiles; the number
\* of tiles of the result is the number of tiles of the argument less the
\* number of merges; and tile by tile nothing appears or disappears except
\* that a merge replaces two tiles of one value v by one tile of value 2v.
C17_MoveConservesTiles ==
    Moved =>
        LET before == TileSeq(call.map)
            after == TileSeq(call.out.value.result)
            mergedTiles == SelectSeq(after, LAMBDA cell : cell.state = "merged")
            values == {before[i].value : i \in 1..Len(before)}
                      \cup {after[i].value : i \in 1..Len(after)}
                      \cup {mergedTiles[i].value \div 2 : i \in 1..Len(mergedTiles)}
        IN  /\ SumSeq([i \in 1..Len(after) |-> after[i].value])
                   = SumSeq([i \in 1..Len(before) |-> before[i].value])
            /\ Len(mergedTiles) = Len(MoveMerges(call.map, call.direction))
            /\ Len(after) = Len(before) - Len(mergedTiles)
            /\ \A v \in values :
                   Len(SelectSeq(before, LAMBDA cell : cell.value = v))
                       = CountTiles(after, v, FALSE) + 2 * CountTiles(after, 2 * v, TRUE)

\* A move has merged two of three tiles: the result holds two tiles, one of
\* them merged, and the third tile with its value.
C17_Witness ==
    /\ Moved
    /\ Len(TileSeq(call.map)) = 3
    /\ Len(TileSeq(call.out.value.result)) = 2
    /\ CountTiles(TileSeq(call.out.value.result), 8, TRUE) = 1
    /\ CountTiles(TileSeq(call.out.value.result), 2, FALSE) = 1

(***************************************************************************)
(* The states of the tiles after a move, under SpecEngine.                 *)
(***************************************************************************)
\* For the tiles the reference reduction of a line produces, in order: TRUE
\* for a tile produced by a merge, FALSE for a tile carried over.
RECURSIVE MergeMarks(_)
MergeMarks(vals) ==
    IF Len(vals) = 0 THEN <<>>
    ELSE IF Len(vals) = 1 THEN <<FALSE>>
    ELSE IF vals[1] = vals[2]
         THEN <<TRUE>> \o MergeMarks(SubSeq(vals, 3, Len(vals)))
         ELSE <<FALSE>> \o MergeMarks(SubSeq(vals, 2, Len(vals)))

\* The positions of a 4 x 4 grid that hold a tile of state new.
NewTiles(map) ==
    {p \in Board : map[p[1]][p[2]] # null /\ map[p[1]][p[2]].state = "new"}

\* C18: in the grid moveMapIn2048Rule returns, in every direction and
\* whatever the states of the tiles of the argument, no tile has state new, a
\* tile has state merged exactly if a merge of this move produced it, and
\* every other tile has state normal; so in the game, after a key event that
\* moved and spawned, exactly one tile has state new.
C18_StatesAfterMove ==
    /\ Moved =>
            \A k \in 1..NumLines(call.map, call.direction) :
                LET line == Line(call.out.value.result, call.direction, k)
                    marks == MergeMarks(TileValues(Line(call.map, call.direction, k)))
                IN  \A i \in 1..Len(line) :
                        line[i] # null =>
                            /\ i <= Len(marks)
                            /\ line[i].state = IF marks[i] THEN "merged" ELSE "normal"
    /\ (Handled /\ call.isMoved) =>
            /\ NewTiles(call.result) = {}
            /\ Cardinality(NewTiles(grid)) = 1

\* The first key event of a game has merged the two new tiles of
\* initializeMap: the grid holds the merged 4 and the spawned tile, the only
\* tile of state new.
C18_Witness ==
    /\ Handled
    /\ call.isMoved
    /\ call.gained = 4
    /\ Cardinality({p \in Board : grid[p[1]][p[2]] # null}) = 2
    /\ \E cell \in TilesOf(grid) : cell.state = "merged" /\ cell.value = 4
    /\ Cardinality(NewTiles(grid)) = 1

====
